---- MODULE Spec2Model ----
(***************************************************************************)
(* Model of the classification / filtering pipeline of                     *)
(* architectures_2023/data.py: filter_data, get_multis_and_singles,        *)
(* _label_position, demote_multis_to_singles and process_data.             *)
(*                                                                         *)
(* A DataFrame is a sequence of rows.  Every row carries its pandas index  *)
(* label in the field "index", so that label based operations (drop, loc,  *)
(* idxmin, idxmax) and reset_index are modelled by what they do.           *)
(***************************************************************************)
EXTENDS Integers, Sequences, FiniteSets, TLC

VARIABLES
    df,           \* the input dataset handed to process_data / to a direct call
    config,       \* the configuration dictionary of the process_data call
    status_flag,  \* the status selector of the process_data call
    pc,           \* position of the process_data call
    singles,      \* local "singles" of process_data
    multis,       \* local "multis" of process_data
    call,         \* a direct call of one of the functions: name and arguments
    ret,          \* what the direct call returned
    other         \* a second process_data call that was handed the same df

vars == <<df, config, status_flag, pc, singles, multis, call, ret, other>>

----------------------------------------------------------------------------
(* Bounds and value domains of the inputs                                   *)

MaxRows == 3

Systems == {1, 2}

Periods == {-1, 0, 1}

\* (snr, statusflag) of a row; a status code is a sequence of characters
Measurements ==
    { [snr |-> 12, statusflag |-> <<"P", "R">>],
      [snr |-> 11, statusflag |-> <<"R", "P">>],
      [snr |-> 12, statusflag |-> <<"X", "P">>] }

----------------------------------------------------------------------------
(* Optional values: a keyword that is not passed, None, or a number         *)

Absent == [kind |-> "absent", v |-> 0]

None == [kind |-> "none", v |-> 0]

Num(x) == [kind |-> "num", v |-> x]

\* columns that a frame does not have yet
NoMultiplicity == 0

NoPosition == "absent"

----------------------------------------------------------------------------
(* STATUS_FLAG: each regular expression is anchored at the start of the     *)
(* status code and constrains its first character only.                     *)

NoFlag == "none"

STATUS_FLAG ==
    [ PERIOD_RELATED        |-> {"P"},
      RADIUS_RELATED        |-> {"P", "R"},
      R_DISPOSITION_RELATED |-> {"R"} ]

StatusFlags == DOMAIN STATUS_FLAG

\* variant: Series.str.contains, the character may stand anywhere
StrMatch_anywhere(code, flag) ==
    \E k \in 1..Len(code) : code[k] \in STATUS_FLAG[flag]

\* Series.str.match(pattern): the pattern matches at the beginning
StrMatch(code, flag) == Len(code) >= 1 /\ code[1] \in STATUS_FLAG[flag]

\* defaults of filter_data's keyword arguments
DefaultMinTtvperiod == 0

DefaultMinSnr == 12

----------------------------------------------------------------------------
(* pandas helpers                                                           *)

\* DataFrame.reset_index(drop=True): labels become 0..n-1 in row order
ResetIndex(f) == [i \in 1..Len(f) |-> [f[i] EXCEPT !.index = i - 1]]

\* Series >= scalar: a comparison with None is False for every row
GeScalar(x, t) == IF t.kind = "num" THEN x >= t.v ELSE FALSE

\* variant: duplicated(keep="first"), the first row of a system is not marked
Duplicated_keep_first(f, i) == \E j \in 1..Len(f) : j < i /\ f[j].system = f[i].system

\* Series.duplicated(keep=False) on the system column, for row i
Duplicated(f, i) == \E j \in 1..Len(f) : j # i /\ f[j].system = f[i].system

\* the rows (in order) at the positions of f that satisfy the mask
RECURSIVE MaskFrom(_, _, _)
MaskFrom(f, mask, i) ==
    IF i > Len(f) THEN <<>>
    ELSE (IF mask[i] THEN <<f[i]>> ELSE <<>>) \o MaskFrom(f, mask, i + 1)

BoolIndex(f, mask) == MaskFrom(f, mask, 1)

\* DataFrame.drop(labels): removes every row whose index label is in labels
Drop(f, labels) ==
    BoolIndex(f, [i \in 1..Len(f) |-> f[i].index \notin labels])

\* groupby("system")["koi"].transform("count")
GroupCount(f, i) == Cardinality({j \in 1..Len(f) : f[j].system = f[i].system})

Kois(f) == {f[i].koi : i \in 1..Len(f)}

----------------------------------------------------------------------------
(* filter_data                                                              *)

filter_data(f, flag, min_ttvperiod, min_snr) ==
    LET d1 == IF flag # NoFlag
              THEN BoolIndex(f, [i \in 1..Len(f) |-> StrMatch(f[i].statusflag, flag)])
              ELSE f
        d2 == BoolIndex(d1, [i \in 1..Len(d1) |-> GeScalar(d1[i].ttvperiod, min_ttvperiod)])
        d3 == BoolIndex(d2, [i \in 1..Len(d2) |-> GeScalar(d2[i].snr, min_snr)])
    IN  ResetIndex(d3)

\* binding of the keyword arguments: a keyword that is not passed takes
\* the default of the signature
BindMinTtvperiod(a) == IF a = Absent THEN Num(DefaultMinTtvperiod) ELSE a

\* variant: min_snr defaults to 0
BindMinSnr_zero(a) == IF a = Absent THEN Num(0) ELSE a

BindMinSnr(a) == IF a = Absent THEN Num(DefaultMinSnr) ELSE a

\* partial(filter_data, status_flag=status_flag, **config["data_filtering"])
Filterer(f, flag, filtering) ==
    filter_data(f, flag, BindMinTtvperiod(filtering.min_ttvperiod),
                BindMinSnr(filtering.min_snr))

----------------------------------------------------------------------------
(* get_multis_and_singles: returns <<singles, multis>>                      *)

\* variant: the labels to drop are read after multis was reindexed
get_multis_and_singles_drop_reindexed(f) ==
    LET multis_mask == [i \in 1..Len(f) |-> Duplicated(f, i)]
        m           == ResetIndex(BoolIndex(f, multis_mask))
        s           == ResetIndex(Drop(f, {m[i].index : i \in 1..Len(m)}))
    IN  <<s, m>>

get_multis_and_singles(f) ==
    LET multis_mask == [i \in 1..Len(f) |-> Duplicated(f, i)]
        masked      == BoolIndex(f, multis_mask)
        m           == ResetIndex(masked)
        s           == ResetIndex(Drop(f, {masked[i].index : i \in 1..Len(masked)}))
    IN  <<s, m>>

----------------------------------------------------------------------------
(* Inputs: datasets as clean_data leaves them, sorted by (system,           *)
(* ttvperiod) with a dense index; koi identifies the row.                   *)

RowValues == [system : Systems, ttvperiod : Periods, m : Measurements]

SortedValues(f) ==
    \A i \in 1..(Len(f) - 1) :
        \/ f[i].system < f[i + 1].system
        \/ f[i].system = f[i + 1].system /\ f[i].ttvperiod <= f[i + 1].ttvperiod

MakeFrame(f) ==
    [i \in 1..Len(f) |->
        [index |-> i - 1, koi |-> i, system |-> f[i].system,
         ttvperiod |-> f[i].ttvperiod, snr |-> f[i].m.snr,
         statusflag |-> f[i].m.statusflag,
         multiplicity |-> NoMultiplicity, position |-> NoPosition]]

Datasets ==
    UNION { {MakeFrame(f) : f \in {g \in [1..n -> RowValues] : SortedValues(g)}}
            : n \in 0..MaxRows }

----------------------------------------------------------------------------
(* _label_position                                                          *)

SameSystem(f, i) == {j \in 1..Len(f) : f[j].system = f[i].system}

\* groupby("system")["ttvperiod"].idxmin(): per system, the index label of
\* the first row in row order that attains the minimum
IdxMin(f) ==
    { f[i].index : i \in { k \in 1..Len(f) :
        /\ \A j \in SameSystem(f, k) : f[k].ttvperiod <= f[j].ttvperiod
        /\ \A j \in SameSystem(f, k) : j < k => f[j].ttvperiod # f[k].ttvperiod } }

\* variant: the last row that attains the maximum
IdxMax_last(f) ==
    { f[i].index : i \in { k \in 1..Len(f) :
        /\ \A j \in SameSystem(f, k) : f[k].ttvperiod >= f[j].ttvperiod
        /\ \A j \in SameSystem(f, k) : j > k => f[j].ttvperiod # f[k].ttvperiod } }

\* groupby("system")["ttvperiod"].idxmax(): first row that attains the maximum
IdxMax(f) ==
    { f[i].index : i \in { k \in 1..Len(f) :
        /\ \A j \in SameSystem(f, k) : f[k].ttvperiod >= f[j].ttvperiod
        /\ \A j \in SameSystem(f, k) : j < k => f[j].ttvperiod # f[k].ttvperiod } }

\* df.loc[labels, "position"] = value
LocSetPosition(f, labels, value) ==
    [i \in 1..Len(f) |->
        IF f[i].index \in labels THEN [f[i] EXCEPT !.position = value] ELSE f[i]]

\* variant: line 338 is left out, rows alone in their system keep the
\* innermost / outermost assignment
label_position_no_single(f) ==
    LET d0 == [i \in 1..Len(f) |-> [f[i] EXCEPT !.position = "middle"]]
        d1 == LocSetPosition(d0, IdxMin(d0), "innermost")
    IN  LocSetPosition(d1, IdxMax(d1), "outermost")

label_position(f) ==
    LET d0 == [i \in 1..Len(f) |-> [f[i] EXCEPT !.position = "middle"]]
        d1 == LocSetPosition(d0, IdxMin(d0), "innermost")
        d2 == LocSetPosition(d1, IdxMax(d1), "outermost")
    IN  [i \in 1..Len(d2) |->
            IF ~Duplicated(d2, i) THEN [d2[i] EXCEPT !.position = "single"] ELSE d2[i]]

----------------------------------------------------------------------------
(* demote_multis_to_singles                                                 *)

\* DataFrame.sort_values(by=["system"]): the default algorithm is not
\* stable, every arrangement that is ascending in system can come out
SortValuesBySystem(f) ==
    { g \in { [i \in 1..Len(f) |-> f[p[i]]] : p \in Permutations(1..Len(f)) } :
        \A i \in 1..(Len(g) - 1) : g[i].system <= g[i + 1].system }

\* variant: the pair returned by get_multis_and_singles is unpacked the
\* other way round
demote_multis_to_singles_swapped(s, m) ==
    LET split       == get_multis_and_singles(m)
        new_singles == [i \in 1..Len(split[2]) |->
                           [split[2][i] EXCEPT !.position = "demoted"]]
    IN  { <<ResetIndex(g), split[1]>> : g \in SortValuesBySystem(s \o new_singles) }

\* variant: the concatenation is not sorted
demote_multis_to_singles_unsorted(s, m) ==
    LET split       == get_multis_and_singles(m)
        new_singles == [i \in 1..Len(split[1]) |->
                           [split[1][i] EXCEPT !.position = "demoted"]]
    IN  { <<ResetIndex(s \o new_singles), split[2]>> }

\* variant: line 254 is left out, the moved rows keep their label
demote_multis_to_singles_unlabelled(s, m) ==
    LET split       == get_multis_and_singles(m)
        new_singles == split[1]
    IN  { <<ResetIndex(g), split[2]>> : g \in SortValuesBySystem(s \o new_singles) }

\* the set of <<singles, multis>> the call can return
demote_multis_to_singles(s, m) ==
    LET split       == get_multis_and_singles(m)
        new_singles == [i \in 1..Len(split[1]) |->
                           [split[1][i] EXCEPT !.position = "demoted"]]
    IN  { <<ResetIndex(g), split[2]>> : g \in SortValuesBySystem(s \o new_singles) }

----------------------------------------------------------------------------
(* _filter_then_split and _split_then_filter                                *)

\* df["multiplicity"] = df.groupby("system")["koi"].transform("count")
SetMultiplicity(f) ==
    [i \in 1..Len(f) |-> [f[i] EXCEPT !.multiplicity = GroupCount(f, i)]]

\* variant: a multiplicity column that the frame already has is kept
filter_then_split_keep_column(f, flag, filtering) ==
    LET d == Filterer(f, flag, filtering)
    IN  get_multis_and_singles(
            IF \E i \in 1..Len(d) : d[i].multiplicity # NoMultiplicity
            THEN d ELSE SetMultiplicity(d))

\* variant: the filtered frame is not kept, the input is split as it is
filter_then_split_unfiltered(f, flag, filtering) ==
    get_multis_and_singles(SetMultiplicity(f))

filter_then_split(f, flag, filtering) ==
    get_multis_and_singles(SetMultiplicity(Filterer(f, flag, filtering)))

\* variant: the multiplicity is counted on each half after it was filtered
split_then_filter_count_after(f, flag, filtering) ==
    LET split == get_multis_and_singles(f)
    IN  <<SetMultiplicity(Filterer(split[1], flag, filtering)),
          SetMultiplicity(Filterer(split[2], flag, filtering))>>

\* variant: only the multis half is filtered
split_then_filter_multis_only(f, flag, filtering) ==
    LET split == get_multis_and_singles(SetMultiplicity(f))
    IN  <<split[1], Filterer(split[2], flag, filtering)>>

split_then_filter(f, flag, filtering) ==
    LET split == get_multis_and_singles(SetMultiplicity(f))
    IN  <<Filterer(split[1], flag, filtering), Filterer(split[2], flag, filtering)>>

----------------------------------------------------------------------------
(* KeplerData views of multis                                               *)

\* self.multis.query(f"multiplicity {operator} {num_planets}")
get_multis_system_with(m, num_planets, operator) ==
    BoolIndex(m, [i \in 1..Len(m) |->
                    IF operator = "==" THEN m[i].multiplicity = num_planets
                    ELSE m[i].multiplicity >= num_planets])

m2(m) == get_multis_system_with(m, 2, "==")

m3_plus(m) == get_multis_system_with(m, 3, ">=")

----------------------------------------------------------------------------
(* process_data as a whole: the set of <<singles, multis>> a call on the    *)
(* dataset f can return (none when the call raises)                         *)

process_data(f, cfg, flag) ==
    IF cfg.data_filtering.unknown_key THEN {}
    ELSE
      LET split == IF cfg.pre_split_filtering
                   THEN filter_then_split(f, flag, cfg.data_filtering)
                   ELSE split_then_filter(f, flag, cfg.data_filtering)
          s     == label_position(split[1])
          m     == label_position(split[2])
      IN  IF cfg.demote_multis_to_singles
          THEN demote_multis_to_singles(s, m)
          ELSE { <<s, m>> }

----------------------------------------------------------------------------
(* process_data, one action per step of its body                            *)

\* the data_filtering section: the tests' period threshold with the snr key
\* left out, the two settings main.py makes, and thresholds below every row
\* unknown_key: the section carries a key filter_data has no parameter for
DataFiltering ==
    { [min_ttvperiod |-> Num(0),  min_snr |-> Absent,  unknown_key |-> FALSE],
      [min_ttvperiod |-> None,    min_snr |-> Num(12), unknown_key |-> FALSE],
      [min_ttvperiod |-> None,    min_snr |-> None,    unknown_key |-> FALSE],
      [min_ttvperiod |-> Num(-1), min_snr |-> Num(11), unknown_key |-> FALSE],
      [min_ttvperiod |-> Num(0),  min_snr |-> Absent,  unknown_key |-> TRUE] }

Configs ==
    [ pre_split_filtering : BOOLEAN,
      demote_multis_to_singles : BOOLEAN,
      data_filtering : DataFiltering ]

NoConfig ==
    [ pre_split_filtering |-> FALSE,
      demote_multis_to_singles |-> FALSE,
      data_filtering |-> [min_ttvperiod |-> Absent, min_snr |-> Absent,
                          unknown_key |-> FALSE] ]

\* no second call
NoInvocation ==
    [ config |-> NoConfig, status_flag |-> NoFlag, pc |-> "idle",
      singles |-> <<>>, multis |-> <<>> ]

NoCall == [fn |-> "none", status_flag |-> NoFlag,
           min_ttvperiod |-> Absent, min_snr |-> Absent]

Init ==
    /\ df \in Datasets
    /\ config \in Configs
    /\ status_flag \in {NoFlag} \cup StatusFlags
    /\ pc = "start"
    /\ singles = <<>>
    /\ multis = <<>>
    /\ call = NoCall
    /\ ret = <<>>
    /\ other = NoInvocation

\* calling fn passes every key of config["data_filtering"] to filter_data as
\* a keyword; a keyword that filter_data does not have raises TypeError
RaisesTypeError(filtering) == filtering.unknown_key

\* lines 163-164: singles, multis = _filter_then_split(df, fn)
FilterThenSplit ==
    /\ pc = "start"
    /\ config.pre_split_filtering
    /\ ~RaisesTypeError(config.data_filtering)
    /\ LET r == filter_then_split(df, status_flag, config.data_filtering)
       IN  singles' = r[1] /\ multis' = r[2]
    /\ pc' = "split"
    /\ UNCHANGED <<df, config, status_flag, call, ret, other>>

\* lines 165-166: singles, multis = _split_then_filter(df, fn); the
\* multiplicity column is assigned on the caller's dataset
SplitThenFilter ==
    /\ pc = "start"
    /\ ~config.pre_split_filtering
    /\ ~RaisesTypeError(config.data_filtering)
    /\ df' = SetMultiplicity(df)
    /\ LET r == split_then_filter(df, status_flag, config.data_filtering)
       IN  singles' = r[1] /\ multis' = r[2]
    /\ pc' = "split"
    /\ UNCHANGED <<config, status_flag, call, ret, other>>

\* line 302 raises: filterer(df) is the first statement of _filter_then_split
FilterThenSplitRaises ==
    /\ pc = "start"
    /\ config.pre_split_filtering
    /\ RaisesTypeError(config.data_filtering)
    /\ pc' = "raised"
    /\ UNCHANGED <<df, config, status_flag, singles, multis, call, ret, other>>

\* line 312 raises, after line 311 assigned the multiplicity column
SplitThenFilterRaises ==
    /\ pc = "start"
    /\ ~config.pre_split_filtering
    /\ RaisesTypeError(config.data_filtering)
    /\ df' = SetMultiplicity(df)
    /\ pc' = "raised"
    /\ UNCHANGED <<config, status_flag, singles, multis, call, ret, other>>

\* lines 168-169
LabelPosition ==
    /\ pc = "split"
    /\ singles' = label_position(singles)
    /\ multis' = label_position(multis)
    /\ pc' = "labelled"
    /\ UNCHANGED <<df, config, status_flag, call, ret, other>>

\* lines 171-172, demotion enabled
Demote ==
    /\ pc = "labelled"
    /\ config.demote_multis_to_singles
    /\ \E r \in demote_multis_to_singles(singles, multis) :
          singles' = r[1] /\ multis' = r[2]
    /\ pc' = "done"
    /\ UNCHANGED <<df, config, status_flag, call, ret, other>>

\* variant: the demotion runs whatever the flag says
SkipDemote_demoting ==
    /\ pc = "labelled"
    /\ ~config.demote_multis_to_singles
    /\ \E r \in demote_multis_to_singles(singles, multis) :
          singles' = r[1] /\ multis' = r[2]
    /\ pc' = "done"
    /\ UNCHANGED <<df, config, status_flag, call, ret, other>>

\* lines 171 and 174, demotion disabled
SkipDemote ==
    /\ pc = "labelled"
    /\ ~config.demote_multis_to_singles
    /\ pc' = "done"
    /\ UNCHANGED <<df, config, status_flag, singles, multis, call, ret, other>>

Next ==
    \/ FilterThenSplit
    \/ SplitThenFilter
    \/ FilterThenSplitRaises
    \/ SplitThenFilterRaises
    \/ LabelPosition
    \/ Demote
    \/ SkipDemote

Spec == Init /\ [][Next]_vars

----------------------------------------------------------------------------
(* Two process_data calls that were handed the same dataset object; their   *)
(* steps interleave in any order.  The second call's locals are in "other". *)

\* the runs that share the dataset: <<config, status_flag>>
SharedRuns ==
    << << [pre_split_filtering |-> TRUE, demote_multis_to_singles |-> TRUE,
           data_filtering |-> [min_ttvperiod |-> Num(0), min_snr |-> Absent,
                               unknown_key |-> FALSE]], "PERIOD_RELATED" >>,
       << [pre_split_filtering |-> FALSE, demote_multis_to_singles |-> TRUE,
           data_filtering |-> [min_ttvperiod |-> Num(0), min_snr |-> Absent,
                               unknown_key |-> FALSE]], "RADIUS_RELATED" >>,
       << [pre_split_filtering |-> FALSE, demote_multis_to_singles |-> FALSE,
           data_filtering |-> [min_ttvperiod |-> Num(-1), min_snr |-> Num(11),
                               unknown_key |-> FALSE]], NoFlag >> >>

\* the two calls are interchangeable, so each pair of runs is started once
InitShared ==
    /\ df \in Datasets
    /\ pc = "start"
    /\ singles = <<>>
    /\ multis = <<>>
    /\ call = NoCall
    /\ ret = <<>>
    /\ \E i \in 1..Len(SharedRuns) : \E j \in i..Len(SharedRuns) :
          /\ config = SharedRuns[i][1]
          /\ status_flag = SharedRuns[i][2]
          /\ other = [config |-> SharedRuns[j][1], status_flag |-> SharedRuns[j][2],
                      pc |-> "start", singles |-> <<>>, multis |-> <<>>]

OtherFilterThenSplit ==
    /\ other.pc = "start"
    /\ other.config.pre_split_filtering
    /\ ~RaisesTypeError(other.config.data_filtering)
    /\ LET r == filter_then_split(df, other.status_flag, other.config.data_filtering)
       IN  other' = [other EXCEPT !.singles = r[1], !.multis = r[2], !.pc = "split"]
    /\ UNCHANGED <<df, config, status_flag, pc, singles, multis, call, ret>>

OtherSplitThenFilter ==
    /\ other.pc = "start"
    /\ ~other.config.pre_split_filtering
    /\ ~RaisesTypeError(other.config.data_filtering)
    /\ df' = SetMultiplicity(df)
    /\ LET r == split_then_filter(df, other.status_flag, other.config.data_filtering)
       IN  other' = [other EXCEPT !.singles = r[1], !.multis = r[2], !.pc = "split"]
    /\ UNCHANGED <<config, status_flag, pc, singles, multis, call, ret>>

OtherLabelPosition ==
    /\ other.pc = "split"
    /\ other' = [other EXCEPT !.singles = label_position(other.singles),
                              !.multis = label_position(other.multis),
                              !.pc = "labelled"]
    /\ UNCHANGED <<df, config, status_flag, pc, singles, multis, call, ret>>

OtherDemote ==
    /\ other.pc = "labelled"
    /\ other.config.demote_multis_to_singles
    /\ \E r \in demote_multis_to_singles(other.singles, other.multis) :
          other' = [other EXCEPT !.singles = r[1], !.multis = r[2], !.pc = "done"]
    /\ UNCHANGED <<df, config, status_flag, pc, singles, multis, call, ret>>

OtherSkipDemote ==
    /\ other.pc = "labelled"
    /\ ~other.config.demote_multis_to_singles
    /\ other' = [other EXCEPT !.pc = "done"]
    /\ UNCHANGED <<df, config, status_flag, pc, singles, multis, call, ret>>

NextShared ==
    \/ FilterThenSplit
    \/ SplitThenFilter
    \/ LabelPosition
    \/ Demote
    \/ SkipDemote
    \/ OtherFilterThenSplit
    \/ OtherSplitThenFilter
    \/ OtherLabelPosition
    \/ OtherDemote
    \/ OtherSkipDemote

SpecShared == InitShared /\ [][NextShared]_vars

----------------------------------------------------------------------------
(* Direct calls of the functions on a dataset, one call per behaviour       *)

MinTtvperiodArgs == {Absent, None, Num(-1), Num(0), Num(1)}

MinSnrArgs == {Absent, None, Num(0), Num(11), Num(12)}

InitFn ==
    /\ df \in Datasets
    /\ config = NoConfig
    /\ status_flag = NoFlag
    /\ pc = "idle"
    /\ singles = <<>>
    /\ multis = <<>>
    /\ call = NoCall
    /\ ret = <<>>
    /\ other = NoInvocation

\* filter_data(df, status_flag, min_ttvperiod=..., min_snr=...)
CallFilterData ==
    /\ call.fn = "none"
    /\ \E flag \in {NoFlag} \cup StatusFlags, p \in MinTtvperiodArgs, s \in MinSnrArgs :
          /\ call' = [fn |-> "filter_data", status_flag |-> flag,
                      min_ttvperiod |-> p, min_snr |-> s]
          /\ ret' = <<filter_data(df, flag, BindMinTtvperiod(p), BindMinSnr(s))>>
    /\ UNCHANGED <<df, config, status_flag, pc, singles, multis, other>>

\* get_multis_and_singles(df)
CallGetMultisAndSingles ==
    /\ call.fn = "none"
    /\ call' = [NoCall EXCEPT !.fn = "get_multis_and_singles"]
    /\ ret' = get_multis_and_singles(df)
    /\ UNCHANGED <<df, config, status_flag, pc, singles, multis, other>>

\* _label_position(df): the position column is assigned on the argument,
\* which is also what is returned
CallLabelPosition ==
    /\ call.fn = "none"
    /\ call' = [NoCall EXCEPT !.fn = "label_position"]
    /\ df' = label_position(df)
    /\ ret' = <<label_position(df)>>
    /\ UNCHANGED <<config, status_flag, pc, singles, multis, other>>

\* demote_multis_to_singles(singles, multis) on two labelled frames: any
\* rows of df as singles, the other rows as multis
CallDemote ==
    /\ call.fn = "none"
    /\ \E K \in SUBSET (1..Len(df)) :
          /\ singles' = label_position(ResetIndex(
                            BoolIndex(df, [i \in 1..Len(df) |-> i \in K])))
          /\ multis' = label_position(ResetIndex(
                            BoolIndex(df, [i \in 1..Len(df) |-> i \notin K])))
    /\ call' = [NoCall EXCEPT !.fn = "demote_multis_to_singles"]
    /\ ret' \in demote_multis_to_singles(singles', multis')
    /\ UNCHANGED <<df, config, status_flag, pc, other>>

\* demote_multis_to_singles applied to what the first call returned
CallDemoteAgain ==
    /\ call.fn = "demote_multis_to_singles"
    /\ singles' = ret[1]
    /\ multis' = ret[2]
    /\ call' = [NoCall EXCEPT !.fn = "demote_again"]
    /\ ret' \in demote_multis_to_singles(ret[1], ret[2])
    /\ UNCHANGED <<df, config, status_flag, pc, other>>

NextFn ==
    \/ CallFilterData
    \/ CallGetMultisAndSingles
    \/ CallLabelPosition
    \/ CallDemote
    \/ CallDemoteAgain

SpecFn == InitFn /\ [][NextFn]_vars

----------------------------------------------------------------------------
(* Properties of process_data (specification Spec)                          *)

Done == pc = "done"

\* filter_data applied to the whole input with the run's selector and thresholds
Survivors == Filterer(df, status_flag, config.data_filtering)

RowsOfSystem(f, sys) == {i \in 1..Len(f) : f[i].system = sys}

HasPosition(f, position) == \E i \in 1..Len(f) : f[i].position = position

\* a system with two or more input rows of which exactly one survives the filter
SoleSurvivor(k) ==
    /\ Cardinality(RowsOfSystem(df, Survivors[k].system)) >= 2
    /\ Cardinality(RowsOfSystem(Survivors, Survivors[k].system)) = 1

\* C1: singles and multis returned by process_data are disjoint by row
\* identity, hold no row twice, and together hold exactly the rows of
\* filter_data(input): |singles| + |multis| = |filter_data(input)|.
C1_Partition ==
    Done =>
        /\ Kois(singles) \cap Kois(multis) = {}
        /\ Cardinality(Kois(singles)) = Len(singles)
        /\ Cardinality(Kois(multis)) = Len(multis)
        /\ Kois(singles) \cup Kois(multis) = Kois(Survivors)
        /\ Len(singles) + Len(multis) = Len(Survivors)

C1_Witness ==
    /\ Done
    /\ ~config.pre_split_filtering
    /\ config.demote_multis_to_singles
    /\ Len(Survivors) < Len(df)
    /\ HasPosition(singles, "demoted")
    /\ HasPosition(singles, "single")
    /\ C1_Partition

NoSmallSystemInMultis ==
    /\ \A i \in 1..Len(multis) :
          Cardinality(RowsOfSystem(Survivors, multis[i].system)) >= 2
    /\ \A k \in 1..Len(Survivors) :
          Cardinality(RowsOfSystem(Survivors, Survivors[k].system)) = 1
              => /\ Survivors[k].koi \in Kois(singles)
                 /\ Survivors[k].koi \notin Kois(multis)

\* C2 as stated: after process_data, under every configuration, multis holds
\* no system with fewer than 2 surviving rows, and every system with exactly
\* one surviving row is in singles and not in multis.
C2_NoSmallSystemInMultis == Done => NoSmallSystemInMultis

\* C2 as amended: the same, for the runs with demotion enabled or with the
\* filter applied before the split.
C2_NoSmallSystemInMultisWhenResolved ==
    (Done /\ (config.demote_multis_to_singles \/ config.pre_split_filtering))
        => NoSmallSystemInMultis

C2_Witness ==
    /\ Done
    /\ ~config.pre_split_filtering
    /\ config.demote_multis_to_singles
    /\ \E k \in 1..Len(Survivors) :
          /\ SoleSurvivor(k)
          /\ \E i \in 1..Len(singles) :
                singles[i].koi = Survivors[k].koi /\ singles[i].position = "demoted"
    /\ multis = <<>>

\* C3: split-then-filter without demotion keeps a system that had two or
\* more input rows and one surviving row in multis as a system of size 1;
\* the row is not in singles and no output row is labelled demoted.
C3_DegenerateMultiKept ==
    (Done /\ ~config.pre_split_filtering /\ ~config.demote_multis_to_singles)
        => /\ \A k \in 1..Len(Survivors) :
                SoleSurvivor(k)
                    => /\ Survivors[k].koi \in Kois(multis)
                       /\ Survivors[k].koi \notin Kois(singles)
                       /\ Cardinality(RowsOfSystem(multis, Survivors[k].system)) = 1
           /\ ~HasPosition(singles, "demoted")
           /\ ~HasPosition(multis, "demoted")

C3_Witness ==
    /\ Done
    /\ ~config.pre_split_filtering
    /\ ~config.demote_multis_to_singles
    /\ \E k \in 1..Len(Survivors) :
          SoleSurvivor(k) /\ Survivors[k].koi \in Kois(multis)
    /\ Len(singles) >= 1

\* C4: after labelling, every system with two or more rows in multis has
\* exactly one row labelled innermost, exactly one labelled outermost and all
\* its other rows labelled middle, whatever the periods (ties included).
C4_OneInnermostOneOutermost ==
    (pc \in {"labelled", "done"}) =>
        \A i \in 1..Len(multis) :
            LET g == RowsOfSystem(multis, multis[i].system)
            IN  Cardinality(g) >= 2 =>
                  /\ Cardinality({j \in g : multis[j].position = "innermost"}) = 1
                  /\ Cardinality({j \in g : multis[j].position = "outermost"}) = 1
                  /\ \A j \in g : multis[j].position \in {"innermost", "outermost", "middle"}

----------------------------------------------------------------------------
(* Properties of the functions called directly (specification SpecFn)       *)

Called(fn) == call.fn = fn

\* the first row in row order, among the rows g of f, whose period is v
FirstWithPeriod(f, g, v) ==
    CHOOSE i \in g :
        /\ f[i].ttvperiod = v
        /\ \A j \in g : f[j].ttvperiod = v => i <= j

MinPeriod(f, g) == CHOOSE v \in {f[i].ttvperiod : i \in g} : \A j \in g : v <= f[j].ttvperiod

MaxPeriod(f, g) == CHOOSE v \in {f[i].ttvperiod : i \in g} : \A j \in g : v >= f[j].ttvperiod

\* C5: in a system with two or more rows whose minimum and maximum period
\* differ, _label_position labels the first row at the minimum innermost, the
\* first row at the maximum outermost and every other row middle; with
\* exactly two rows there is no middle row.
C5_FirstExtremesLabelled ==
    Called("label_position") =>
        \A i \in 1..Len(ret[1]) :
            LET f  == ret[1]
                g  == RowsOfSystem(f, f[i].system)
                lo == MinPeriod(f, g)
                hi == MaxPeriod(f, g)
            IN  (Cardinality(g) >= 2 /\ lo # hi) =>
                  /\ f[FirstWithPeriod(f, g, lo)].position = "innermost"
                  /\ f[FirstWithPeriod(f, g, hi)].position = "outermost"
                  /\ \A j \in g \ {FirstWithPeriod(f, g, lo), FirstWithPeriod(f, g, hi)} :
                        f[j].position = "middle"
                  /\ Cardinality(g) = 2 => \A j \in g : f[j].position # "middle"

\* three rows of one system, the last two tied at the maximum
C5_Witness ==
    /\ Called("label_position")
    /\ Len(ret[1]) = 3
    /\ ret[1][1].system = ret[1][3].system
    /\ ret[1][1].ttvperiod < ret[1][2].ttvperiod
    /\ ret[1][2].ttvperiod = ret[1][3].ttvperiod
    /\ ret[1][1].position = "innermost"
    /\ ret[1][2].position = "outermost"
    /\ ret[1][3].position = "middle"

\* the selector as the claim words it
StartsWith(code, chars) == Len(code) >= 1 /\ code[1] \in chars

Selected(code, flag) ==
    CASE flag = "PERIOD_RELATED"        -> StartsWith(code, {"P"})
      [] flag = "RADIUS_RELATED"        -> StartsWith(code, {"P", "R"})
      [] flag = "R_DISPOSITION_RELATED" -> StartsWith(code, {"R"})
      [] OTHER                          -> TRUE

\* g holds exactly the input rows with the kois in keep, unchanged but for
\* the index, in their input order and reindexed 0..n-1
IsSubframeOf(g, f, keep) ==
    /\ Kois(g) = keep
    /\ Len(g) = Cardinality(keep)
    /\ \A a \in 1..Len(g) :
          /\ g[a].index = a - 1
          /\ \E i \in 1..Len(f) : g[a] = [f[i] EXCEPT !.index = a - 1]
    /\ \A a, b \in 1..Len(g) : a < b => g[a].koi < g[b].koi

BothNumeric == call.min_ttvperiod.kind = "num" /\ call.min_snr.kind = "num"

C7_StrictlyAboveThresholds ==
    (Called("filter_data") /\ BothNumeric) =>
        \A a \in 1..Len(ret[1]) :
            /\ ~(ret[1][a].ttvperiod <= call.min_ttvperiod.v)
            /\ ~(ret[1][a].snr <= call.min_snr.v)

\* a bound as the claim reads the argument: None is no bound, a keyword that
\* is not passed is the default of the signature
PassesBound(x, arg, default) ==
    CASE arg.kind = "none"   -> TRUE
      [] arg.kind = "absent" -> x >= default
      [] OTHER               -> x >= arg.v

\* C8: None as min_ttvperiod and/or min_snr disables that lower bound: the
\* result holds every row that passes the selector and the other bound,
\* rows with a negative ttvperiod included.
C8_NoneDisablesBound ==
    (Called("filter_data") /\ (call.min_ttvperiod = None \/ call.min_snr = None)) =>
        Kois(ret[1]) =
            { df[i].koi : i \in { k \in 1..Len(df) :
                /\ Selected(df[k].statusflag, call.status_flag)
                /\ PassesBound(df[k].ttvperiod, call.min_ttvperiod, 0)
                /\ PassesBound(df[k].snr, call.min_snr, 12) } }

\* C9 as stated: a threshold that is not passed behaves like a threshold of 0.
C9_AbsentIsZero ==
    Called("filter_data") =>
        /\ call.min_snr = Absent =>
              ret[1] = filter_data(df, call.status_flag,
                                   BindMinTtvperiod(call.min_ttvperiod), Num(0))
        /\ call.min_ttvperiod = Absent =>
              ret[1] = filter_data(df, call.status_flag, Num(0),
                                   BindMinSnr(call.min_snr))

\* C9 as amended: min_ttvperiod not passed behaves like min_ttvperiod=0,
\* min_snr not passed behaves like min_snr=12.
C9_AbsentIsSignatureDefault ==
    Called("filter_data") =>
        /\ call.min_snr = Absent =>
              ret[1] = filter_data(df, call.status_flag,
                                   BindMinTtvperiod(call.min_ttvperiod), Num(12))
        /\ call.min_ttvperiod = Absent =>
              ret[1] = filter_data(df, call.status_flag, Num(0),
                                   BindMinSnr(call.min_snr))

\* nothing is passed; a row with snr 11 is dropped, one with snr 12 is kept
C9_Witness ==
    /\ Called("filter_data")
    /\ call.min_snr = Absent /\ call.min_ttvperiod = Absent
    /\ call.status_flag = NoFlag
    /\ \E i \in 1..Len(df) :
          df[i].snr = 11 /\ df[i].ttvperiod >= 0 /\ df[i].koi \notin Kois(ret[1])
    /\ \E a \in 1..Len(ret[1]) : ret[1][a].snr = 12

InMultiSystem(f) == {f[i].koi : i \in {k \in 1..Len(f) : Cardinality(RowsOfSystem(f, f[k].system)) > 1}}

\* C10: get_multis_and_singles(df) returns (singles, multis): multis is the
\* rows whose system occurs more than once in df, singles the other rows,
\* both in the row order of df and reindexed 0..n-1; df is not modified, and
\* an empty df gives two empty outputs.
C10_SplitExact ==
    /\ [](Called("get_multis_and_singles") =>
            /\ IsSubframeOf(ret[2], df, InMultiSystem(df))
            /\ IsSubframeOf(ret[1], df, Kois(df) \ InMultiSystem(df))
            /\ Len(ret[1]) + Len(ret[2]) = Len(df)
            /\ (df = <<>> => ret = << <<>>, <<>> >>))
    /\ [][call'.fn = "get_multis_and_singles" => df' = df]_vars

\* a single-planet system in front of a two-planet system
C10_Witness ==
    /\ Called("get_multis_and_singles")
    /\ Len(df) = 3
    /\ Len(ret[1]) = 1 /\ ret[1][1].koi = 1
    /\ Len(ret[2]) = 2 /\ ret[2][1].koi = 2 /\ ret[2][1].index = 0

\* the rows of f whose system occurs once in f
LoneInSystem(f) ==
    {f[i].koi : i \in {k \in 1..Len(f) : Cardinality(RowsOfSystem(f, f[k].system)) = 1}}

\* the row of f with the given koi, whatever its index
RowOf(f, koi) == [(CHOOSE r \in {f[i] : i \in 1..Len(f)} : r.koi = koi) EXCEPT !.index = 0]

C12_DemoteIdempotent ==
    Called("demote_again") =>
        /\ LoneInSystem(multis) = {}
        /\ Kois(ret[1]) = Kois(singles)
        /\ Len(ret[1]) = Len(singles)
        /\ \A a \in 1..Len(ret[1]) :
              RowOf(ret[1], ret[1][a].koi) = RowOf(singles, ret[1][a].koi)
        /\ ret[2] = multis

\* the first call demoted a row and left a two-planet system in multis
C12_Witness ==
    /\ Called("demote_again")
    /\ HasPosition(singles, "demoted")
    /\ Len(multis) = 2
    /\ HasPosition(ret[1], "demoted")
    /\ ret[2] = multis

----------------------------------------------------------------------------
(* Further properties of process_data (specification Spec)                  *)

Output == singles \o multis

\* C13: under filter-then-split the multiplicity on an output row is the
\* number of rows of its system in singles plus multis; under
\* split-then-filter it is the number of rows of its system in the input.
C13_MultiplicityByOrdering ==
    Done =>
        \A a \in 1..Len(Output) :
            Output[a].multiplicity =
                IF config.pre_split_filtering
                THEN Cardinality(RowsOfSystem(Output, Output[a].system))
                ELSE Cardinality(RowsOfSystem(df, Output[a].system))

\* three input rows of one system, one fails the filter, the two survivors
\* carry 3 under split-then-filter
C13_Witness ==
    /\ Done
    /\ ~config.pre_split_filtering
    /\ Len(df) = 3 /\ df[1].system = df[3].system
    /\ Len(multis) = 2
    /\ multis[1].multiplicity = 3 /\ multis[2].multiplicity = 3

\* C14: after process_data with demotion enabled no row of singles is
\* labelled innermost, outermost or middle and no row of multis is labelled
\* single.
C14_LabelsMatchCollection ==
    (Done /\ config.demote_multis_to_singles) =>
        /\ \A a \in 1..Len(singles) : singles[a].position \in {"single", "demoted"}
        /\ \A a \in 1..Len(multis) : multis[a].position # "single"

C14_Witness ==
    /\ Done
    /\ config.demote_multis_to_singles
    /\ Len(singles) = 1 /\ singles[1].position = "single"
    /\ Len(multis) = 2
    /\ multis[1].position = "innermost" /\ multis[2].position = "outermost"

\* C15: in every output of process_data no two rows of singles share a
\* system.
C15_SinglesOnePerSystem ==
    Done =>
        \A a, b \in 1..Len(singles) : a # b => singles[a].system # singles[b].system

C15_Witness ==
    /\ Done
    /\ config.demote_multis_to_singles
    /\ Len(singles) = 2
    /\ singles[1].position = "demoted" /\ singles[2].position = "single"
    /\ singles[1].system # singles[2].system

\* C16: process_data leaves its input dataset as it was: no step changes the
\* rows, the fields or the values of df.
C16_InputUnchanged == [][df' = df]_vars

\* C19: an empty input, or an input of which the filter removes every row,
\* is no error: no step raises, and every step of process_data (the
\* filter and the split, the labelling, the demotion) leaves singles and
\* multis empty.
\* (stated from the other end: a run that raised, or holds a row after a
\* step, has an input of which the filter keeps a row)
C19_DegenerateInputNoError ==
    LET raised   == pc \notin {"start", "split", "labelled", "done"}
        holdsRow == pc # "start" /\ (singles # <<>> \/ multis # <<>>)
    IN  (~config.data_filtering.unknown_key /\ (raised \/ holdsRow))
            => Survivors # <<>>

\* both rows of a two-planet system are removed by numeric thresholds
C19_Witness ==
    /\ Done
    /\ Len(df) = 2 /\ df[1].system = df[2].system
    /\ config.data_filtering.min_ttvperiod.kind = "num"
    /\ ~config.data_filtering.unknown_key
    /\ Survivors = <<>>
    /\ singles = <<>> /\ multis = <<>>

\* the dataset as it was handed over: it has no multiplicity column
Fresh(f) == [i \in 1..Len(f) |-> [f[i] EXCEPT !.multiplicity = NoMultiplicity]]

\* C18: an unrecognized key inside the data_filtering section is ignored:
\* process_data does not raise and returns what it returns without the key.
C18_UnknownKeyIgnored ==
    config.data_filtering.unknown_key =>
        /\ pc # "raised"
        /\ Done => <<singles, multis>> \in
                      process_data(Fresh(df),
                                   [config EXCEPT !.data_filtering.unknown_key = FALSE],
                                   status_flag)

\* a row with its multiplicity and, for the sole survivor of a system that
\* had more rows, its single / demoted label left out of the comparison
Comparable(r, sole) ==
    [r EXCEPT !.multiplicity = NoMultiplicity,
              !.position = IF sole /\ r.position \in {"single", "demoted"}
                           THEN "single or demoted" ELSE r.position]

\* row a of the returned frame f is the only row of its system left, and the
\* input had more rows of that system
IsSoleSurvivor(f, a) ==
    /\ Cardinality(RowsOfSystem(f, f[a].system)) = 1
    /\ Cardinality(RowsOfSystem(df, f[a].system)) >= 2

ComparableFrame(f) ==
    [a \in 1..Len(f) |-> Comparable(f[a], IsSoleSurvivor(f, a))]

\* C20: with demotion enabled the two orderings return the same rows in
\* singles and the same rows in multis; the results differ at most in the
\* multiplicity and in the single / demoted label of a sole survivor.
\* Every result of a filter-then-split run is compared with every result
\* split-then-filter has on the same input, thresholds and selector.
C20_OrderingsAgreeWithDemotion ==
    (Done /\ config.demote_multis_to_singles /\ config.pre_split_filtering) =>
        \A r \in process_data(Fresh(df),
                              [config EXCEPT !.pre_split_filtering = FALSE],
                              status_flag) :
            /\ Kois(r[1]) = Kois(singles)
            /\ Kois(r[2]) = Kois(multis)
            /\ ComparableFrame(r[1]) = ComparableFrame(singles)
            /\ ComparableFrame(r[2]) = ComparableFrame(multis)

\* filter-then-split labels a sole survivor single and records 1, the other
\* ordering labels it demoted and records 2
C20_Witness ==
    /\ Done
    /\ config.demote_multis_to_singles
    /\ config.pre_split_filtering
    /\ Len(multis) = 0
    /\ \E a \in 1..Len(singles) :
          /\ IsSoleSurvivor(singles, a)
          /\ singles[a].position = "single"
          /\ singles[a].multiplicity = 1
          /\ \E r \in process_data(Fresh(df),
                                   [config EXCEPT !.pre_split_filtering = FALSE],
                                   status_flag) :
                /\ r[1][a].koi = singles[a].koi
                /\ r[1][a].position = "demoted"
                /\ r[1][a].multiplicity = 2

----------------------------------------------------------------------------
(* Two calls sharing the dataset (specification SpecShared)                 *)

\* C17: process_data calls that share one input dataset and whose steps
\* interleave in any order each return what the call returns when it runs
\* alone on a fresh copy of the input.
C17_SharedInputSameResult ==
    /\ Done => <<singles, multis>> \in process_data(Fresh(df), config, status_flag)
    /\ other.pc = "done" =>
          <<other.singles, other.multis>> \in
              process_data(Fresh(df), other.config, other.status_flag)

\* a filter-then-split call ran after a split-then-filter call had assigned
\* the multiplicity column on the shared dataset
C17_Witness ==
    /\ Done /\ other.pc = "done"
    /\ config.pre_split_filtering
    /\ ~other.config.pre_split_filtering
    /\ Len(df) = 3 /\ df[1].multiplicity = 3
    /\ Len(multis) = 2 /\ multis[1].multiplicity = 2
    /\ Len(other.multis) = 3

----------------------------------------------------------------------------
(* Labels, views and order of the output (specification Spec)               *)

\* the system had two or more rows in the input and exactly one survives
SoleSurvivorSystem(sys) ==
    /\ Cardinality(RowsOfSystem(df, sys)) >= 2
    /\ Cardinality(RowsOfSystem(Survivors, sys)) = 1

\* C21: an output row is labelled demoted iff the run is split-then-filter
\* with demotion enabled and the row is the one survivor of a system that
\* had two or more input rows; under filter-then-split such a row is in
\* singles labelled single, and the demotion step changes nothing.
C21_DemotedIffSoleSurvivor ==
    /\ Done =>
          \A a \in 1..Len(Output) :
              Output[a].position = "demoted" <=>
                  /\ ~config.pre_split_filtering
                  /\ config.demote_multis_to_singles
                  /\ SoleSurvivorSystem(Output[a].system)
    /\ (Done /\ config.pre_split_filtering) =>
          /\ \A a \in 1..Len(multis) : ~SoleSurvivorSystem(multis[a].system)
          /\ \A a \in 1..Len(singles) :
                SoleSurvivorSystem(singles[a].system) => singles[a].position = "single"
    /\ (pc = "labelled" /\ config.pre_split_filtering) =>
          demote_multis_to_singles(singles, multis) = { <<singles, multis>> }

\* split-then-filter with demotion: the survivor of a two-row system is the
\* only output row and is labelled demoted
C21_Witness ==
    /\ Done
    /\ ~config.pre_split_filtering /\ config.demote_multis_to_singles
    /\ Len(df) = 2 /\ df[1].system = df[2].system
    /\ Len(singles) = 1 /\ multis = <<>>
    /\ singles[1].position = "demoted"

\* C22: no row of the returned multis has multiplicity 1, so m2 and m3_plus
\* share no row and together hold every row of multis.
C22_ViewsPartitionMultis ==
    Done =>
        /\ get_multis_system_with(multis, 1, "==") = <<>>
        /\ Kois(m2(multis)) \cap Kois(m3_plus(multis)) = {}
        /\ Kois(m2(multis)) \cup Kois(m3_plus(multis)) = Kois(multis)

\* without demotion the one survivor of a two-row system stays in multis
\* with the multiplicity 2 counted before the filter, and is in m2
C22_Witness ==
    /\ Done
    /\ ~config.pre_split_filtering /\ ~config.demote_multis_to_singles
    /\ Len(multis) = 1 /\ multis[1].multiplicity = 2
    /\ m2(multis) = multis
    /\ m3_plus(multis) = <<>>

\* C23: for an input sorted ascending by (system, ttvperiod), singles and
\* multis returned by process_data are sorted ascending by (system,
\* ttvperiod), also after demoted rows were merged into singles.
C23_OutputSorted ==
    Done => (SortedValues(singles) /\ SortedValues(multis))

\* the demoted row of system 1 was appended after the single row of system
\* 2 and the sort brought it to the front
C23_Witness ==
    /\ Done
    /\ SortedValues(df)
    /\ config.demote_multis_to_singles /\ ~config.pre_split_filtering
    /\ Len(singles) = 2
    /\ singles[1].system = 1 /\ singles[1].position = "demoted"
    /\ singles[2].system = 2 /\ singles[2].position = "single"

====
